---- MODULE Spec2Model ----
(***************************************************************************)
(* Model of dashboard.py: the shared StreamState (bounded deque, running   *)
(* flag, listener thread handle), the start/stop handlers of the script    *)
(* run, run_backfill and the handle_msg callback of the listener threads.  *)
(*                                                                         *)
(* One primary flow (the script run) executes the start and stop handlers. *)
(* run_backfill is split at its deque appends, because the listener        *)
(* threads launched by earlier start requests keep running and their       *)
(* appendleft calls interleave with it.  Each deque call is atomic.        *)
(*                                                                         *)
(* Python's None is the empty sequence <<>> and a present value x is <<x>>.*)
(* Strings that the code searches (tickers, contract symbols) are          *)
(* sequences of characters.  Prices, closes and volumes are integers.      *)
(* time.strftime("%H:%M:%S") is the one value "HH:MM:SS"; the tags are     *)
(* written without their emoji.                                            *)
(*                                                                         *)
(* The ghost variables prov, inputs and last record history only; no       *)
(* action of the program reads them except to bound the run (inputs).      *)
(***************************************************************************)
EXTENDS Integers, Sequences, FiniteSets

VARIABLES
    data,       \* state.data: the deque, head first
    prov,       \* ghost, parallel to data: threshold of the writer that inserted the record
    running,    \* state.running
    thread,     \* state.thread: index into threads of the last launched listener, 0 for None
    threads,    \* every listener thread launched so far: its arguments, whether it
                \* is alive, and whether it is inside a call of handle_msg with
                \* messages of the list left to process
    inputs,     \* ghost: number of external inputs consumed so far
    pc,         \* position of the script run: "idle" or "backfill"
    bf,         \* locals of the start handler while it is in run_backfill, and the
                \* ghost failed: number of tickers whose try block raised
    last        \* ghost: the operation performed last and its input

vars == <<data, prov, running, thread, threads, inputs, pc, bf, last>>

----------------------------------------------------------------------------
(* Bounds *)

\* deque(maxlen=200) scaled down; every claim about the capacity is about Cap
Cap == 2
\* external inputs consumed in one behaviour: accepted start requests,
\* contracts yielded by the chain snapshots, messages delivered to handle_msg
MaxInputs == 4

----------------------------------------------------------------------------
(* Python values *)

None == <<>>
Some(x) == <<x>>

\* Python truthiness of an optional number: None and 0 are falsy
Truthy(o) == o # None /\ o[1] # 0

\* the  in  operator on strings:  t in s
IsSubstr(t, s) ==
    \E i \in 0..(Len(s) - Len(t)) : \A j \in 1..Len(t) : s[i + j] = t[j]

\* the  in  operator on lists
InList(x, l) == \E i \in 1..Len(l) : l[i] = x

----------------------------------------------------------------------------
(* The deque *)

\* faulty variant of AppendLeft: a deque built without maxlen
AppendLeftUnbounded(d, x) == <<x>> \o d

\* deque.appendleft with maxlen: a full deque drops its right end
AppendLeft(d, x) ==
    IF Len(d) >= Cap THEN <<x>> \o SubSeq(d, 1, Cap - 1) ELSE <<x>> \o d

\* faulty variant of AppendRight: the backfill inserts at the left end
AppendRightAtHead(d, x) ==
    IF Len(d) >= Cap THEN <<x>> \o SubSeq(d, 1, Cap - 1) ELSE <<x>> \o d

\* deque.append with maxlen: a full deque drops its left end
AppendRight(d, x) ==
    IF Len(d) >= Cap THEN SubSeq(d, 2, Len(d)) \o <<x>> ELSE d \o <<x>>

----------------------------------------------------------------------------
(* Inputs *)

SPY == <<"S", "P", "Y">>
AMD == <<"A", "M", "D">>

\* option contract symbol  O:<underlying><expiry><C|P><strike>, shortened
OptSym(u, cp) == <<"O", ":">> \o u \o <<"1", cp, "5">>

\* api_key as typed in the sidebar
Keys == {"", "key"}
\* sidebar configurations: tickers as selected in the multiselect and
\* min_flow as entered in the number input
Configs == { [watchlist |-> <<SPY>>, threshold |-> 200],
             [watchlist |-> <<AMD, SPY>>, threshold |-> 0],
             [watchlist |-> <<>>, threshold |-> 200] }

Ctr(close, volume, type, sym) ==
    [day |-> Some([close |-> close, volume |-> volume]),
     details |-> Some([contract_type |-> type, ticker |-> sym])]

\* what list_snapshot_options_chain(t) may yield
Contracts(t) ==
    { Ctr(Some(2), Some(1), "call", OptSym(t, "C")),
      Ctr(Some(1), Some(1), "put", OptSym(t, "P")),
      Ctr(Some(0), Some(1), "call", OptSym(t, "C")),
      Ctr(Some(2), Some(0), "put", OptSym(t, "P")),
      Ctr(None, Some(1), "put", OptSym(t, "P")),
      [day |-> None,
       details |-> Some([contract_type |-> "call", ticker |-> OptSym(t, "C")])],
      [day |-> Some([close |-> Some(2), volume |-> Some(2)]), details |-> None] }

Msg(ev, sym, price, size, conds) ==
    [event_type |-> ev, symbol |-> sym, price |-> price, size |-> size,
     conditions |-> conds]

\* what the subscription T.* may deliver to handle_msg
Msgs ==
    { Msg("T", Some(OptSym(SPY, "C")), Some(2), Some(1), Some(<<14>>)),
      Msg("T", Some(OptSym(SPY, "P")), Some(2), Some(2), None),
      Msg("T", Some(OptSym(AMD, "P")), Some(1), Some(1), Some(<<37>>)),
      Msg("T", Some(OptSym(SPY \o <<"C">>, "P")), Some(1), Some(1), Some(<<37, 14>>)),
      Msg("T", Some(OptSym(<<"I", "B", "M">>, "C")), Some(2), Some(2), Some(<<>>)),
      Msg("T", Some(OptSym(SPY \o AMD, "P")), Some(2), Some(1), Some(<<>>)),
      Msg("T", Some(OptSym(SPY, "C")), None, Some(1), Some(<<14>>)),
      Msg("T", None, Some(2), Some(2), None),
      Msg("Q", Some(OptSym(SPY, "C")), Some(2), Some(2), Some(<<14>>)) }

----------------------------------------------------------------------------
(* State *)

NoBf == [wl |-> <<>>, thr |-> 0, i |-> 0, count |-> 0, failed |-> 0]

\* StreamState.__init__
Init ==
    /\ data = <<>>
    /\ prov = <<>>
    /\ running = FALSE
    /\ thread = 0
    /\ threads = <<>>
    /\ inputs = 0
    /\ pc = "idle"
    /\ bf = NoBf
    /\ last = [op |-> "init"]

Alive == {i \in 1..Len(threads) : threads[i].alive}

----------------------------------------------------------------------------
(* Start / stop logic *)

\* faulty variant of StartRequest: the test of state.running is missing
StartRequestNoRunningTest(key, wl, thr) ==
    /\ pc = "idle"
    /\ IF key = ""
       THEN /\ last' = [op |-> "start", key |-> key, wl |-> wl, thr |-> thr]
            /\ UNCHANGED <<data, prov, running, thread, threads, inputs, pc, bf>>
       ELSE /\ inputs < MaxInputs
            /\ inputs' = inputs + 1
            /\ pc' = "backfill"
            /\ bf' = [wl |-> wl, thr |-> thr, i |-> 1, count |-> 0, failed |-> 0]
            /\ last' = [op |-> "start", key |-> key, wl |-> wl, thr |-> thr]
            /\ UNCHANGED <<data, prov, running, thread, threads>>

\* faulty variant of StartRequest: the test of api_key is missing
StartRequestNoKeyTest(key, wl, thr) ==
    /\ pc = "idle"
    /\ IF running
       THEN /\ last' = [op |-> "start", key |-> key, wl |-> wl, thr |-> thr]
            /\ UNCHANGED <<data, prov, running, thread, threads, inputs, pc, bf>>
       ELSE /\ inputs < MaxInputs
            /\ inputs' = inputs + 1
            /\ pc' = "backfill"
            /\ bf' = [wl |-> wl, thr |-> thr, i |-> 1, count |-> 0, failed |-> 0]
            /\ last' = [op |-> "start", key |-> key, wl |-> wl, thr |-> thr]
            /\ UNCHANGED <<data, prov, running, thread, threads>>

\* faulty variant of StartRequest: the thread is started before run_backfill is called
StartRequestThreadFirst(key, wl, thr) ==
    /\ pc = "idle"
    /\ IF key = "" \/ running
       THEN /\ last' = [op |-> "start", key |-> key, wl |-> wl, thr |-> thr]
            /\ UNCHANGED <<data, prov, running, thread, threads, inputs, pc, bf>>
       ELSE /\ inputs < MaxInputs
            /\ inputs' = inputs + 1
            /\ running' = TRUE
            /\ threads' = Append(threads, [watchlist |-> wl, threshold |-> thr,
                                           alive |-> TRUE, incall |-> FALSE])
            /\ thread' = Len(threads) + 1
            /\ pc' = "backfill"
            /\ bf' = [wl |-> wl, thr |-> thr, i |-> 1, count |-> 0, failed |-> 0]
            /\ last' = [op |-> "start", key |-> key, wl |-> wl, thr |-> thr]
            /\ UNCHANGED <<data, prov>>

\* faulty variant of StartRequest: the listener reads the sidebar values of the
\* current script run instead of its own arguments, so a later request
\* re-configures it
StartRequestLeaksConfig(key, wl, thr) ==
    /\ pc = "idle"
    /\ IF key = ""
       THEN /\ last' = [op |-> "start", key |-> key, wl |-> wl, thr |-> thr]
            /\ UNCHANGED <<data, prov, running, thread, threads, inputs, pc, bf>>
       ELSE IF running
       THEN /\ last' = [op |-> "start", key |-> key, wl |-> wl, thr |-> thr]
            /\ threads' = [i \in 1..Len(threads) |->
                             [threads[i] EXCEPT !.watchlist = wl,
                                                !.threshold = thr]]
            /\ UNCHANGED <<data, prov, running, thread, inputs, pc, bf>>
       ELSE /\ inputs < MaxInputs
            /\ inputs' = inputs + 1
            /\ pc' = "backfill"
            /\ bf' = [wl |-> wl, thr |-> thr, i |-> 1, count |-> 0, failed |-> 0]
            /\ last' = [op |-> "start", key |-> key, wl |-> wl, thr |-> thr]
            /\ UNCHANGED <<data, prov, running, thread, threads>>

\* if start_btn: ... up to the call of run_backfill
StartRequest(key, wl, thr) ==
    /\ pc = "idle"
    /\ IF key = ""
       THEN \* st.error("Please enter API Key.")
            /\ last' = [op |-> "start", key |-> key, wl |-> wl, thr |-> thr]
            /\ UNCHANGED <<data, prov, running, thread, threads, inputs, pc, bf>>
       ELSE IF running
       THEN \* neither branch is taken
            /\ last' = [op |-> "start", key |-> key, wl |-> wl, thr |-> thr]
            /\ UNCHANGED <<data, prov, running, thread, threads, inputs, pc, bf>>
       ELSE /\ inputs < MaxInputs
            /\ inputs' = inputs + 1
            /\ pc' = "backfill"
            /\ bf' = [wl |-> wl, thr |-> thr, i |-> 1, count |-> 0, failed |-> 0]
            /\ last' = [op |-> "start", key |-> key, wl |-> wl, thr |-> thr]
            /\ UNCHANGED <<data, prov, running, thread, threads>>

\* the record run_backfill builds for contract c of ticker t
BackfillRecord(t, c) ==
    LET close == c.day[1].close[1]
        volume == c.day[1].volume[1]
    IN [Time |-> "Today (Sum)", Ticker |-> t, Tags |-> "DAY TOP",
        Side |-> IF c.details[1].contract_type = "call" THEN "CALL" ELSE "PUT",
        Price |-> close, Size |-> volume, Flow |-> close * volume * 100,
        Symbol |-> c.details[1].ticker]

\* if c.day and c.day.volume and c.day.close  and  flow >= threshold
Qualifies(c, thr) ==
    /\ c.day # None
    /\ Truthy(c.day[1].volume)
    /\ Truthy(c.day[1].close)
    /\ c.day[1].close[1] * c.day[1].volume[1] * 100 >= thr

\* faulty variant of BackfillContract: there is no inner try, a contract that
\* raises ends the whole loop
BackfillContractAborts(c) ==
    /\ pc = "backfill"
    /\ bf.i <= Len(bf.wl)
    /\ inputs < MaxInputs
    /\ inputs' = inputs + 1
    /\ c \in Contracts(bf.wl[bf.i])
    /\ IF ~Qualifies(c, bf.thr)
       THEN /\ bf' = bf
            /\ last' = [op |-> "contract", c |-> c, ins |-> FALSE, full |-> Len(data) = Cap]
            /\ UNCHANGED <<data, prov>>
       ELSE IF c.details = None
       THEN /\ bf' = [bf EXCEPT !.i = Len(bf.wl) + 1, !.failed = @ + 1]
            /\ last' = [op |-> "contract", c |-> c, ins |-> FALSE, full |-> Len(data) = Cap]
            /\ UNCHANGED <<data, prov>>
       ELSE /\ data' = AppendRight(data, BackfillRecord(bf.wl[bf.i], c))
            /\ prov' = AppendRight(prov, bf.thr)
            /\ bf' = [bf EXCEPT !.count = @ + 1]
            /\ last' = [op |-> "contract", c |-> c, ins |-> TRUE, full |-> Len(data) = Cap]
    /\ UNCHANGED <<running, thread, threads, pc>>

\* one iteration of  for c in chain  for ticker watchlist[i]
BackfillContract(c) ==
    /\ pc = "backfill"
    /\ bf.i <= Len(bf.wl)
    /\ inputs < MaxInputs
    /\ inputs' = inputs + 1
    /\ c \in Contracts(bf.wl[bf.i])
    /\ IF ~Qualifies(c, bf.thr)
       THEN /\ bf' = bf
            /\ last' = [op |-> "contract", c |-> c, ins |-> FALSE, full |-> Len(data) = Cap]
            /\ UNCHANGED <<data, prov>>
       ELSE IF c.details = None
       THEN \* c.details.contract_type raises: except ... continue, next ticker
            /\ bf' = [bf EXCEPT !.i = @ + 1, !.failed = @ + 1]
            /\ last' = [op |-> "contract", c |-> c, ins |-> FALSE, full |-> Len(data) = Cap]
            /\ UNCHANGED <<data, prov>>
       ELSE /\ data' = AppendRight(data, BackfillRecord(bf.wl[bf.i], c))
            /\ prov' = AppendRight(prov, bf.thr)
            /\ bf' = [bf EXCEPT !.count = @ + 1]
            /\ last' = [op |-> "contract", c |-> c, ins |-> TRUE, full |-> Len(data) = Cap]
    /\ UNCHANGED <<running, thread, threads, pc>>

\* the chain of ticker watchlist[i] is exhausted, or requesting it raises:
\* either way the loop goes on with the next ticker
BackfillNextTicker(raised) ==
    /\ pc = "backfill"
    /\ bf.i <= Len(bf.wl)
    /\ bf' = [bf EXCEPT !.i = @ + 1, !.failed = IF raised THEN @ + 1 ELSE @]
    /\ last' = [op |-> IF raised THEN "chain_raise" ELSE "chain_end"]
    /\ UNCHANGED <<data, prov, running, thread, threads, inputs, pc>>

\* RESTClient(key) or the sidebar progress widgets raise before the first
\* ticker: the outer except reports the error and run_backfill returns 0
BackfillError ==
    /\ pc = "backfill"
    /\ bf.i = 1
    /\ bf.count = 0
    /\ bf.i <= Len(bf.wl)
    /\ bf' = [bf EXCEPT !.i = Len(bf.wl) + 1]
    /\ last' = [op |-> "backfill_error"]
    /\ UNCHANGED <<data, prov, running, thread, threads, inputs, pc>>

\* run_backfill returns; state.running = True; state.thread = Thread(...).start()
LaunchListener ==
    /\ pc = "backfill"
    /\ bf.i > Len(bf.wl)
    /\ running' = TRUE
    /\ threads' = Append(threads, [watchlist |-> bf.wl, threshold |-> bf.thr,
                                   alive |-> TRUE, incall |-> FALSE])
    /\ thread' = Len(threads) + 1
    /\ pc' = "idle"
    /\ bf' = NoBf
    /\ last' = [op |-> "launch", hits |-> bf.count]
    /\ UNCHANGED <<data, prov, inputs>>

\* faulty variant of StopRequest: stop also ends the listener it holds the handle of
StopRequestKillsThread ==
    /\ pc = "idle"
    /\ running' = FALSE
    /\ threads' = [i \in 1..Len(threads) |->
                       IF i = thread THEN [threads[i] EXCEPT !.alive = FALSE]
                       ELSE threads[i]]
    /\ last' = [op |-> "stop"]
    /\ UNCHANGED <<data, prov, thread, inputs, pc, bf>>

\* faulty variant of StopRequest: stopping also empties the buffer
StopRequestClearsBuffer ==
    /\ pc = "idle"
    /\ running' = FALSE
    /\ data' = <<>>
    /\ prov' = <<>>
    /\ last' = [op |-> "stop"]
    /\ UNCHANGED <<thread, threads, inputs, pc, bf>>

\* if stop_btn: state.running = False
StopRequest ==
    /\ pc = "idle"
    /\ running' = FALSE
    /\ last' = [op |-> "stop"]
    /\ UNCHANGED <<data, prov, thread, threads, inputs, pc, bf>>

----------------------------------------------------------------------------
(* Listener thread *)

\* faulty variant of FoundTicker: the last matching ticker is taken
FoundTickerLast(wl, sym) ==
    LET hits == {i \in 1..Len(wl) : IsSubstr(wl[i], sym)}
    IN IF hits = {} THEN 0 ELSE CHOOSE i \in hits : \A j \in hits : i >= j

\* next((t for t in watchlist if t in m.symbol), None), as an index, 0 for None
FoundTicker(wl, sym) ==
    LET hits == {i \in 1..Len(wl) : IsSubstr(wl[i], sym)}
    IN IF hits = {} THEN 0 ELSE CHOOSE i \in hits : \A j \in hits : i <= j

\* faulty variant of Conditions: only the first condition code is kept
ConditionsFirstOnly(m) ==
    IF m.conditions = None \/ m.conditions = Some(<<>>) THEN <<>>
    ELSE <<m.conditions[1][1]>>

\* m.conditions if hasattr(m, 'conditions') and m.conditions else []
Conditions(m) == IF m.conditions = None THEN <<>> ELSE m.conditions[1]

\* the body of the try block raises
Raises(m, wl) ==
    \/ m.symbol = None /\ Len(wl) > 0
    \/ /\ m.symbol # None
       /\ FoundTicker(wl, m.symbol[1]) # 0
       /\ (m.price = None \/ m.size = None)

\* faulty variant of Admits: the test  flow >= threshold  is missing
AdmitsNoThreshold(m, wl, thr) ==
    /\ m.event_type = "T"
    /\ m.symbol # None
    /\ FoundTicker(wl, m.symbol[1]) # 0
    /\ m.price # None /\ m.size # None

\* the event passes every test of handle_msg and is inserted
Admits(m, wl, thr) ==
    /\ m.event_type = "T"
    /\ ~Raises(m, wl)
    /\ m.symbol # None
    /\ FoundTicker(wl, m.symbol[1]) # 0
    /\ m.price[1] * m.size[1] * 100 >= thr

\* the record handle_msg builds
LiveRecord(m, wl) ==
    [Time |-> "HH:MM:SS", Ticker |-> wl[FoundTicker(wl, m.symbol[1])],
     Tags |-> IF InList(14, Conditions(m)) THEN "SWEEP" ELSE "BLOCK",
     Side |-> IF InList("C", m.symbol[1]) THEN "CALL" ELSE "PUT",
     Price |-> m.price[1], Size |-> m.size[1],
     Flow |-> m.price[1] * m.size[1] * 100, Symbol |-> m.symbol[1]]

\* faulty variant of HandleMsg: there is no try/except, a message that raises
\* ends the callback and the thread
HandleMsgUncaught(th, m, more) ==
    /\ th \in Alive
    /\ inputs < MaxInputs
    /\ more => inputs + 1 < MaxInputs
    /\ LET wl == threads[th].watchlist
           thr == threads[th].threshold
       IN IF Admits(m, wl, thr)
          THEN /\ data' = AppendLeft(data, LiveRecord(m, wl))
               /\ prov' = AppendLeft(prov, thr)
               /\ last' = [op |-> "msg", th |-> th, m |-> m, more |-> more,
                           ins |-> TRUE, full |-> Len(data) = Cap]
          ELSE /\ last' = [op |-> "msg", th |-> th, m |-> m, more |-> more,
                           ins |-> FALSE, full |-> Len(data) = Cap]
               /\ UNCHANGED <<data, prov>>
    /\ inputs' = inputs + 1
    /\ threads' = IF m.event_type = "T" /\ Raises(m, threads[th].watchlist)
                  THEN [threads EXCEPT ![th].incall = FALSE, ![th].alive = FALSE]
                  ELSE [threads EXCEPT ![th].incall = more]
    /\ UNCHANGED <<running, thread, pc, bf>>

\* one iteration of  for m in msgs  of handle_msg, in listener thread th: the
\* first message of a new list when the thread is not inside a call, the next
\* message of the current list otherwise; more says whether the list goes on
HandleMsg(th, m, more) ==
    /\ th \in Alive
    /\ inputs < MaxInputs
    /\ more => inputs + 1 < MaxInputs
    /\ LET wl == threads[th].watchlist
           thr == threads[th].threshold
       IN IF Admits(m, wl, thr)
          THEN /\ data' = AppendLeft(data, LiveRecord(m, wl))
               /\ prov' = AppendLeft(prov, thr)
               /\ last' = [op |-> "msg", th |-> th, m |-> m, more |-> more,
                           ins |-> TRUE, full |-> Len(data) = Cap]
          ELSE /\ last' = [op |-> "msg", th |-> th, m |-> m, more |-> more,
                           ins |-> FALSE, full |-> Len(data) = Cap]
               /\ UNCHANGED <<data, prov>>
    /\ inputs' = inputs + 1
    /\ threads' = [threads EXCEPT ![th].incall = more]
    /\ UNCHANGED <<running, thread, pc, bf>>

\* faulty variant of ListenerEnds: the thread clears the running flag on its
\* way out
ListenerEndsClearsRunning(th) ==
    /\ th \in Alive
    /\ ~threads[th].incall
    /\ threads' = [threads EXCEPT ![th].alive = FALSE]
    /\ running' = FALSE
    /\ last' = [op |-> "listener_end", th |-> th]
    /\ UNCHANGED <<data, prov, thread, inputs, pc, bf>>

\* client.run returns or raises between two calls of handle_msg: the
\* subscription ended, the thread ends
ListenerEnds(th) ==
    /\ th \in Alive
    /\ ~threads[th].incall
    /\ threads' = [threads EXCEPT ![th].alive = FALSE]
    /\ last' = [op |-> "listener_end", th |-> th]
    /\ UNCHANGED <<data, prov, running, thread, inputs, pc, bf>>

----------------------------------------------------------------------------
\* The live stream tab of one script run, on the primary flow.

\* if state.running or len(state.data) > 0:  ... else: st.info(...)
RenderTest257 ==
    /\ pc = "idle"
    /\ inputs < MaxInputs
    /\ inputs' = inputs + 1
    /\ pc' = IF running \/ Len(data) > 0 THEN "render258" ELSE "idle"
    /\ last' = [op |-> "render"]
    /\ UNCHANGED <<data, prov, running, thread, threads, bf>>

\* if len(state.data) > 0:  otherwise on to  if state.running: sleep, rerun
RenderTest258 ==
    /\ pc = "render258"
    /\ pc' = IF Len(data) > 0 THEN "render259" ELSE "idle"
    /\ last' = [op |-> "test", len |-> Len(data)]
    /\ UNCHANGED <<data, prov, running, thread, threads, inputs, bf>>

\* faulty variant of RenderRead: the copy is not one step, it stops short of
\* the end of the buffer
RenderReadTorn ==
    /\ pc = "render259"
    /\ \E k \in 0..(Len(data) - 1) :
          last' = [op |-> "read", snap |-> SubSeq(data, 1, k),
                   raced |-> last.op = "msg" /\ last.ins]
    /\ pc' = "idle"
    /\ UNCHANGED <<data, prov, running, thread, threads, inputs, bf>>

\* df = pd.DataFrame(list(state.data)): list(deque) is one call into the
\* interpreter's C code, during which no other thread of the process runs;
\* raced records whether a listener inserted since the test of line 258
RenderRead ==
    /\ pc = "render259"
    /\ last' = [op |-> "read", snap |-> data,
                raced |-> last.op = "msg" /\ last.ins]
    /\ pc' = "idle"
    /\ UNCHANGED <<data, prov, running, thread, threads, inputs, bf>>

----------------------------------------------------------------------------

Next ==
    \/ \E key \in Keys, cfg \in Configs :
           StartRequest(key, cfg.watchlist, cfg.threshold)
    \/ \E t \in {SPY, AMD} : \E c \in Contracts(t) : BackfillContract(c)
    \/ \E raised \in BOOLEAN : BackfillNextTicker(raised)
    \/ BackfillError
    \/ LaunchListener
    \/ StopRequest
    \/ \E th \in 1..Len(threads), m \in Msgs, more \in BOOLEAN :
           HandleMsg(th, m, more)
    \/ \E th \in 1..Len(threads) : ListenerEnds(th)
    \/ RenderTest257
    \/ RenderTest258
    \/ RenderRead

Spec == Init /\ [][Next]_vars

----------------------------------------------------------------------------
(* Claims *)

\* C1: at most one listener task is alive (able to insert) at any time
AtMostOneListener == Cardinality(Alive) <= 1

\* C2: a start request issued while running is true changes nothing: running
\* stays true, the buffer is unchanged, no backfill begins, no thread is added
StartWhileRunningIsNoOp ==
    [][last'.op = "start" /\ running =>
          /\ running'
          /\ data' = data /\ prov' = prov
          /\ threads' = threads /\ thread' = thread
          /\ pc' = pc /\ bf' = bf]_vars

StartWhileRunningHappened ==
    last.op = "start" /\ last.key # "" /\ running /\ thread \in Alive

\* C3: a stop request sets running to false and leaves the buffer, the thread
\* handle and every listener thread as they were; with running already false
\* it leaves the whole state unchanged
StopOnlyClearsRunning ==
    [][last'.op = "stop" =>
          /\ running' = FALSE
          /\ data' = data /\ prov' = prov
          /\ threads' = threads /\ thread' = thread
          /\ pc' = pc /\ bf' = bf
          /\ (~running => running' = running)]_vars

StopWithLiveListenerHappened ==
    last.op = "stop" /\ ~running /\ thread \in Alive /\ Len(data) > 0

\* C4: the buffer never holds more than Cap records, and a live prepend to a
\* full buffer drops exactly the last record and shifts the others by one
BufferBoundedTailEvicted ==
    /\ [](Len(data) <= Cap)
    /\ [][last'.op = "msg" /\ last'.ins /\ Len(data) = Cap =>
             /\ Len(data') = Cap
             /\ data'[1].Symbol = last'.m.symbol[1]
             /\ \A i \in 1..(Cap - 1) : data'[i + 1] = data[i]]_vars

PrependAtCapacityHappened ==
    last.op = "msg" /\ last.ins /\ last.full /\ Len(data) = Cap

\* notional of a message that carries a price and a size
Notional(m) == m.price[1] * m.size[1] * 100

\* C5: every record in the buffer had notional >= the threshold of the writer
\* that inserted it, and a message or contract whose notional is below the
\* threshold of the writer that handles it leaves the buffer unchanged
FilterBeforeInsert ==
    /\ [](/\ Len(prov) = Len(data)
          /\ \A i \in 1..Len(data) : data[i].Flow >= prov[i])
    /\ [][/\ (/\ last'.op = "msg"
              /\ last'.m.price # None /\ last'.m.size # None
              /\ Notional(last'.m) < threads[last'.th].threshold
              => data' = data)
          /\ (/\ last'.op = "contract"
              /\ last'.c.day # None
              /\ last'.c.day[1].close # None /\ last'.c.day[1].volume # None
              /\ last'.c.day[1].close[1] * last'.c.day[1].volume[1] * 100 < bf.thr
              => data' = data)]_vars

BelowThresholdDropped ==
    /\ last.op = "msg" /\ ~last.ins
    /\ last.m.event_type = "T" /\ last.m.symbol # None
    /\ last.m.price # None /\ last.m.size # None
    /\ FoundTicker(threads[last.th].watchlist, last.m.symbol[1]) # 0
    /\ Notional(last.m) < threads[last.th].threshold
    /\ Len(data) > 0

\* the condition-code list of the message is present and contains 14
Has14(m) ==
    m.conditions # None /\ \E i \in 1..Len(m.conditions[1]) : m.conditions[1][i] = 14

\* C6: an admitted live trade is tagged SWEEP iff its condition codes contain
\* 14 and BLOCK otherwise; no live record carries the backfill tag
SweepIffCode14 ==
    /\ last.op = "msg" /\ last.ins =>
           data[1].Tags = IF Has14(last.m) THEN "SWEEP" ELSE "BLOCK"
    /\ \A i \in 1..Len(data) :
           data[i].Time # "Today (Sum)" => data[i].Tags \in {"SWEEP", "BLOCK"}

SweepAmongOtherCodes ==
    /\ last.op = "msg" /\ last.ins
    /\ last.m.conditions = Some(<<37, 14>>)
    /\ data[1].Tags = "SWEEP"

\* C7: during backfill a contract with non-null close and volume (and with its
\* details) is appended as a DAY TOP record iff close * volume * 100 >= threshold,
\* for every threshold >= 0 and every close and volume, zero included
BackfillIffAboveThreshold ==
    /\ last.op = "contract"
    /\ last.c.details # None
    /\ last.c.day # None
    /\ last.c.day[1].close # None /\ last.c.day[1].volume # None
    /\ bf.thr >= 0
    => LET close == last.c.day[1].close[1]
           volume == last.c.day[1].volume[1]
       IN /\ last.ins <=> close * volume * 100 >= bf.thr
          /\ last.ins =>
                 /\ data[Len(data)].Tags = "DAY TOP"
                 /\ data[Len(data)].Time = "Today (Sum)"
                 /\ data[Len(data)].Price = close
                 /\ data[Len(data)].Size = volume
                 /\ data[Len(data)].Flow = close * volume * 100

\* C8: run_backfill is over before running is set and before the listener of
\* that request is launched: no step into or within the backfill adds a thread
\* or sets running, a thread is added only by the step that leaves a finished
\* backfill, and then the buffer is non-empty if a contract qualified
BackfillBeforeListener ==
    [][/\ (pc' = "backfill" => Len(threads') = Len(threads) /\ ~running')
       /\ (Len(threads') # Len(threads) =>
              /\ pc = "backfill" /\ bf.i > Len(bf.wl)
              /\ pc' = "idle"
              /\ ~running /\ running'
              /\ Len(threads') = Len(threads) + 1
              /\ threads'[Len(threads')].alive
              /\ data' = data
              /\ last'.hits = bf.count
              /\ (bf.count > 0 => Len(data') > 0))]_vars

ListenerLaunchedAfterHits ==
    last.op = "launch" /\ last.hits > 0 /\ Len(data) > 0 /\ running

\* C9: a start request with an empty api_key changes nothing: running, the
\* buffer, the threads and the position of the script run stay as they were
StartWithoutKeyIsNoOp ==
    [][last'.op = "start" /\ last'.key = "" =>
          UNCHANGED <<data, prov, running, thread, threads, pc, bf>>]_vars

StartWithoutKeyHappened ==
    last.op = "start" /\ last.key = "" /\ ~running /\ threads = <<>> /\ pc = "idle"

\* C10: no backfill is in progress while a listener thread is alive
SingleWriter == ~(pc = "backfill" /\ Alive # {})

\* C11: live records precede every backfill record; a live record enters at
\* the head and a backfill record at the end, and each insertion keeps the
\* other records in the order they had (so live records stand latest first
\* and backfill records in the order of their appends)
IsHistorical(r) == r.Tags = "DAY TOP"

LiveBeforeHistorical ==
    /\ [](\A i, j \in 1..Len(data) : i < j /\ IsHistorical(data[i]) => IsHistorical(data[j]))
    /\ [][data' # data =>
             \/ /\ last'.op = "msg"
                /\ ~IsHistorical(data'[1])
                /\ \E k \in 0..Len(data) : Tail(data') = SubSeq(data, 1, k)
             \/ /\ last'.op = "contract"
                /\ IsHistorical(data'[Len(data')])
                /\ \E k \in 1..(Len(data) + 1) :
                       SubSeq(data', 1, Len(data') - 1) = SubSeq(data, k, Len(data))]_vars

BackfillAfterLiveOnRestart ==
    /\ last.op = "contract" /\ last.ins
    /\ Len(data) = 2
    /\ ~IsHistorical(data[1]) /\ IsHistorical(data[2])
    /\ Len(threads) = 1

\* the character right before the strike digits of a contract symbol
SideChar(sym) == sym[Len(sym) - 1]

\* C12: an admitted live trade is recorded as CALL iff the character C stands
\* right before the strike digits of its symbol, and as PUT otherwise
SideFromSymbol ==
    last.op = "msg" /\ last.ins =>
        (data[1].Side = "CALL" <=> SideChar(last.m.symbol[1]) = "C")

\* C14: a backfill append to a full buffer evicts the last record, so the
\* record at the head is retained
BackfillEvictsTail ==
    [][last'.op = "contract" /\ last'.ins /\ Len(data) = Cap =>
          data'[1] = data[1]]_vars

\* indices of the watchlist tickers that occur in the symbol
Matches(wl, sym) ==
    {i \in 1..Len(wl) :
        \E k \in 0..(Len(sym) - Len(wl[i])) :
            \A j \in 1..Len(wl[i]) : sym[k + j] = wl[i][j]}

\* C13: a live trade is recorded under the first watchlist ticker, in
\* watchlist order, that occurs in its symbol; when none occurs the buffer is
\* unchanged, whatever the notional
FirstMatchingTicker ==
    [][last'.op = "msg" /\ last'.m.symbol # None =>
          LET wl == threads[last'.th].watchlist
              hits == Matches(wl, last'.m.symbol[1])
          IN /\ hits = {} => data' = data /\ ~last'.ins
             /\ last'.ins =>
                    \E i \in hits : /\ \A j \in hits : i <= j
                                    /\ data'[1].Ticker = wl[i]]_vars

SecondSubstringFirstInWatchlist ==
    /\ last.op = "msg" /\ last.ins
    /\ Cardinality(Matches(threads[last.th].watchlist, last.m.symbol[1])) = 2
    /\ data[1].Ticker = AMD
    /\ threads[last.th].watchlist = <<AMD, SPY>>

\* the contract passes the data and threshold tests and building its record
\* raises, because it carries no details
ContractRaises(c, thr) ==
    /\ c.day # None
    /\ c.day[1].close # None /\ c.day[1].volume # None
    /\ c.day[1].close[1] # 0 /\ c.day[1].volume[1] # 0
    /\ c.day[1].close[1] * c.day[1].volume[1] * 100 >= thr
    /\ c.details = None

\* C15: a chain request or a contract that raises ends only its own ticker:
\* the loop stands at the next ticker with buffer and count untouched; count
\* grows by one exactly with each append, and it is the value returned
BackfillFailureContained ==
    /\ [][pc = "backfill" /\ last'.op \in {"contract", "chain_raise"} =>
             /\ (\/ last'.op = "chain_raise"
                 \/ ContractRaises(last'.c, bf.thr))
                => /\ pc' = "backfill"
                   /\ bf'.i = bf.i + 1
                   /\ bf'.wl = bf.wl /\ bf'.thr = bf.thr
                   /\ bf'.count = bf.count
                   /\ data' = data
             /\ bf'.count = bf.count + (IF last'.op = "contract" /\ last'.ins THEN 1 ELSE 0)
             /\ last'.op = "contract" /\ last'.ins =>
                    /\ Len(data') = IF Len(data) = Cap THEN Cap ELSE Len(data) + 1
                    /\ data'[Len(data')].Ticker = bf.wl[bf.i]]_vars
    /\ [][last'.op = "start" /\ pc' = "backfill" => bf'.count = 0]_vars
    /\ [][last'.op = "launch" => last'.hits = bf.count]_vars

AppendAfterFailedTicker ==
    /\ last.op = "contract" /\ last.ins
    /\ bf.failed = 1 /\ bf.i = 2 /\ bf.count = 1
    /\ data[Len(data)].Ticker = bf.wl[2]

\* a trade event that lacks its symbol, its price or its size
Malformed(m) ==
    m.event_type = "T" /\ (m.symbol = None \/ m.price = None \/ m.size = None)

\* C16: a malformed trade event leaves the buffer unchanged and its listener
\* alive, inside the same call of handle_msg when the list has more messages
MalformedEventDropped ==
    [][last'.op = "msg" /\ Malformed(last'.m) =>
          /\ data' = data
          /\ ~last'.ins
          /\ threads'[last'.th].alive
          /\ threads'[last'.th].incall = last'.more]_vars

MalformedEventMidBatch ==
    /\ last.op = "msg" /\ last.more
    /\ last.m.price = None /\ last.m.symbol # None
    /\ FoundTicker(threads[last.th].watchlist, last.m.symbol[1]) # 0
    /\ last.th \in Alive
    /\ threads[last.th].incall

\* C17: a listener's watchlist and threshold are those of the start request
\* that launched it, never change afterwards, and every record the listener
\* inserts passes the filter of that snapshot
ListenerConfigFrozen ==
    /\ [][\A i \in 1..Len(threads) :
            /\ Len(threads') >= Len(threads)
            /\ threads'[i].watchlist = threads[i].watchlist
            /\ threads'[i].threshold = threads[i].threshold]_vars
    /\ [][last'.op = "start" /\ pc' = "backfill" /\ pc = "idle" =>
            bf'.wl = last'.wl /\ bf'.thr = last'.thr]_vars
    /\ [][pc = "backfill" /\ pc' = "backfill" =>
            bf'.wl = bf.wl /\ bf'.thr = bf.thr]_vars
    /\ [][last'.op = "launch" =>
            /\ Len(threads') = Len(threads) + 1
            /\ threads'[Len(threads')].watchlist = bf.wl
            /\ threads'[Len(threads')].threshold = bf.thr]_vars
    /\ [][last'.op = "msg" /\ last'.ins =>
            /\ Notional(last'.m) >= threads[last'.th].threshold
            /\ FoundTicker(threads[last'.th].watchlist, last'.m.symbol[1]) # 0
            /\ data'[1].Ticker =
                 threads[last'.th].watchlist[
                     FoundTicker(threads[last'.th].watchlist,
                                 last'.m.symbol[1])]
            /\ prov'[1] = threads[last'.th].threshold]_vars

\* listener 1 inserts a record that the configuration of the later start
\* request, which launched listener 2, would have dropped
InsertUnderOlderConfig ==
    /\ last.op = "msg" /\ last.ins /\ last.th = 1
    /\ Len(threads) >= 2
    /\ threads[2].threshold # threads[1].threshold
    /\ Notional(last.m) < threads[2].threshold
    /\ Notional(last.m) >= threads[1].threshold

\* C18: the end of the subscription ends the listener and leaves running set;
\* while running is set every start request changes nothing, and only a stop
\* request clears running
SubscriptionEndLeavesRunning ==
    /\ [][last'.op = "listener_end" =>
            /\ ~threads'[last'.th].alive
            /\ running' = running
            /\ UNCHANGED <<data, thread, pc, bf>>]_vars
    /\ [][last'.op = "start" /\ running /\ Alive = {} =>
            /\ running' /\ Alive' = {}
            /\ UNCHANGED <<data, thread, threads, inputs, pc, bf>>]_vars
    /\ [][running /\ ~running' => last'.op = "stop"]_vars

\* a start request with a key, made while running is set and the only
\* listener has ended
StartAfterSubscriptionEnd ==
    /\ last.op = "start" /\ last.key # ""
    /\ running
    /\ threads # <<>>
    /\ Alive = {}
    /\ pc = "idle"

\* the eight columns of a record
Fields == {"Time", "Ticker", "Tags", "Side", "Price", "Size", "Flow", "Symbol"}

\* a record as one insertion builds it
Whole(r) == DOMAIN r = Fields /\ r.Flow = r.Price * r.Size * 100

BufferNeverShrinks ==
    /\ [][Len(data') >= Len(data)]_vars
    /\ [][data' # data =>
            Len(data') = IF Len(data) < Cap THEN Len(data) + 1 ELSE Cap]_vars
    /\ [][last'.op \in {"start", "stop", "launch", "listener_end", "render",
                        "test", "read"} => data' = data]_vars
    /\ [][last'.op = "test" /\ last'.len > 0 => pc' = "render259"]_vars
    /\ [][last'.op = "read" => pc = "render259" /\ Len(last'.snap) > 0]_vars

\* a read after a stop request: the test saw records, the listener that
\* outlived the stop inserted one more before the read
ReadAfterStopWithInsert ==
    /\ last.op = "read" /\ last.raced
    /\ ~running
    /\ Len(last.snap) >= 2

====
